---- MODULE Spec2Model ----
(***************************************************************************)
(* Model of scripts/crawl_hotels.py: the hotel crawl pipeline              *)
(*   main -> get_all_hotels -> search_hotels_in_city (per city, <= 2 pages)*)
(*        -> backup file -> insert_to_supabase (batches of batch_size).    *)
(*                                                                         *)
(* Encoding of Python values:                                              *)
(*   an optional value is a tuple: <<>> is None / an absent key,           *)
(*   <<v>> is the value v (so <<"">> is the empty string);                 *)
(*   a rating is counted in tenths (4.0 is 40);                            *)
(*   a place's "rating" entry is [kind, value] with kind "absent" (no      *)
(*   key), "number", or "malformed" (JSON null or a string: comparing it   *)
(*   with 4.0 raises TypeError).                                           *)
(* A hotel record keeps name, rating and place_id; formatted_address,      *)
(* latitude, longitude and user_ratings_total are copied beside name and   *)
(* are not modelled.                                                       *)
(***************************************************************************)
EXTENDS Integers, Sequences, FiniteSets, TLC

VARIABLES
    env,             \* which of the three environment values are set (truthy)
    client,          \* TRUE once create_client has been called
    pc,              \* position of main
    city,            \* index into CITIES of the city being / next searched
    nreq,            \* requests issued by the search_hotels_in_city call in progress
    resp,            \* outcome of the last requests.get + response.json()
    outcome,         \* how the last search_hotels_in_city call ended
    delayed,         \* TRUE iff time.sleep(1) ran after the last request
    hotels,          \* local `hotels` of search_hotels_in_city / its return value
    all_hotels,      \* get_all_hotels: all_hotels
    seen_place_ids,  \* get_all_hotels: seen_place_ids
    cityResults,     \* SpecDedup only: the per-city result lists given as input
    backupFile,      \* hotels_data.json
    i,               \* insert_to_supabase: loop offset
    total_inserted,  \* insert_to_supabase: total_inserted
    upserts          \* upsert calls issued so far: [rows, ok]

vars == <<env, client, pc, city, nreq, resp, outcome, delayed, hotels, all_hotels,
          seen_place_ids, cityResults, backupFile, i, total_inserted, upserts>>

(* ------------------------------ bounds -------------------------------- *)
NumCities == 3
MaxPlaces == 2
MaxRecords == 3
MaxHotels == 250

(* ------------------------- program constants -------------------------- *)
batch_size == 100
MinRating == 40

(* ------------------------------ values -------------------------------- *)
None == <<>>
Min(a, b) == IF a < b THEN a ELSE b
SeqsUpTo(S, n) == UNION {[1..k -> S] : k \in 0..n}

Absent == [kind |-> "absent", value |-> 0]
Malformed == [kind |-> "malformed", value |-> 0]
Num(v) == [kind |-> "number", value |-> v]

\* The places a provider page is built from: rated 4.5, unrated, rated 3.9,
\* rated exactly 4.0 without place_id, and one with a malformed rating.
Places ==
    { [name |-> 1, rating |-> Num(45), place_id |-> <<"p1">>],
      [name |-> 2, rating |-> Absent,  place_id |-> <<"p2">>],
      [name |-> 3, rating |-> Num(39), place_id |-> <<"p2">>],
      [name |-> 4, rating |-> Num(40), place_id |-> None],
      [name |-> 5, rating |-> Malformed, place_id |-> <<"p1">>] }

Pages == SeqsUpTo(Places, MaxPlaces)
Statuses == {"OK", "REQUEST_DENIED"}

\* What requests.get(...).json() can produce: an exception, or a JSON object
\* with a status and optionally "results". Whether the object also holds a
\* "next_page_token" is read on the first page only (line 92) and is a
\* separate input of FetchPage1.
RequestRaises == [error |-> TRUE, status |-> "", results |-> None]
Responses ==
    [error : {FALSE}, status : Statuses, results : {None} \cup {<<p>> : p \in Pages}]
Fetches == Responses \cup {RequestRaises}
NoResponse == [error |-> FALSE, status |-> "", results |-> None]

(* ------------------- search_hotels_in_city: helpers ------------------- *)
\* line 64 / line 99: the status test
StatusOkLenient(status) == TRUE
StatusOk(status) == status = "OK"

\* line 77 / 101: place.get("rating", 0)
RatingGet(place) == IF place.rating.kind = "absent" THEN 0 ELSE place.rating.value

\* line 78 / 102: the rating filter
KeepRatingStrict(rating) == rating >= MinRating
KeepRating(rating) == rating >= MinRating \/ rating = 0

\* lines 79-87 / 103-111
MakeHotel(place, rating) ==
    [name |-> place.name, rating |-> rating, place_id |-> place.place_id]

\* lines 75-89 / 100-113: the loop over data["results"], appending to acc;
\* a malformed rating raises at the comparison and leaves the loop.
RECURSIVE ProcessPlaces(_, _)
ProcessPlaces(places, acc) ==
    IF places = <<>> THEN [hotels |-> acc, raised |-> FALSE]
    ELSE LET place == Head(places) IN
         IF place.rating.kind = "malformed" THEN [hotels |-> acc, raised |-> TRUE]
         ELSE LET rating == RatingGet(place) IN
              ProcessPlaces(Tail(places),
                            IF KeepRating(rating)
                            THEN Append(acc, MakeHotel(place, rating))
                            ELSE acc)

\* lines 117-122: the except branch logs and falls through to `return hotels`
OnExceptionDiscard(acc) == <<>>
OnException(acc) == acc

(* ----------------------- get_all_hotels: helpers ---------------------- *)
\* line 135: truthiness of hotel.get("place_id")
TruthyAlways(pid) == TRUE
Truthy(pid) == pid # None /\ pid # <<"">>

\* lines 133-137: the inner loop over one city's hotels
RECURSIVE DedupCity(_, _, _)
DedupCity(all, seen, hs) ==
    IF hs = <<>> THEN [all |-> all, seen |-> seen]
    ELSE LET hotel == Head(hs) IN
         IF Truthy(hotel.place_id) /\ hotel.place_id \notin seen
         THEN DedupCity(Append(all, hotel), seen \cup {hotel.place_id}, Tail(hs))
         ELSE DedupCity(all, seen, Tail(hs))

(* --------------------- insert_to_supabase: helpers -------------------- *)
\* line 153: hotels[i:i + batch_size]
BatchShort(hs, k) == SubSeq(hs, k + 1, Min(k + batch_size - 1, Len(hs)))
Batch(hs, k) == SubSeq(hs, k + 1, Min(k + batch_size, Len(hs)))

\* lines 158-166: conversion to a row; a falsy rating (0) becomes None
ToRow(hotel) ==
    [name |-> hotel.name,
     rating |-> IF hotel.rating # 0 THEN <<hotel.rating>> ELSE None,
     place_id |-> hotel.place_id]
ToRows(batch) == [k \in 1..Len(batch) |-> ToRow(batch[k])]

\* lines 168-177: total_inserted grows only when execute() returned
CountAlways(total, rows, ok) == total + Len(rows)
Count(total, rows, ok) == IF ok THEN total + Len(rows) ELSE total

(* --------------------------- main: helpers ---------------------------- *)
\* line 188
ApiKeyMissing == ~env.api
\* line 194
DbMissingUrlOnly == ~env.url
DbMissing == ~env.url \/ ~env.key
\* line 222
NeverEmpty(hs) == FALSE
IsEmpty(hs) == Len(hs) = 0

OldFile == [state |-> "old", data |-> <<>>]

\* lines 232-238: an exception of open / json.dump leaves main; otherwise
\* main goes on to insert_to_supabase
AfterBackupSwallow(ok) == "insert"
AfterBackup(ok) == IF ok THEN "insert" ELSE "crashed"

(* ------------------------------ states -------------------------------- *)
Init ==
    /\ env \in [api : BOOLEAN, url : BOOLEAN, key : BOOLEAN]
    /\ client = FALSE
    /\ pc = "start"
    /\ city = 1
    /\ nreq = 0
    /\ resp = NoResponse
    /\ outcome = "none"
    /\ delayed = FALSE
    /\ hotels = <<>>
    /\ all_hotels = <<>>
    /\ seen_place_ids = {}
    /\ cityResults = <<>>
    /\ backupFile = OldFile
    /\ i = 0
    /\ total_inserted = 0
    /\ upserts = <<>>

(* ------------------------------- main --------------------------------- *)
\* lines 188-200: a missing value ends main before anything else happens
MainAbort ==
    /\ pc = "start"
    /\ ApiKeyMissing \/ DbMissing
    /\ pc' = "aborted"
    /\ UNCHANGED <<env, client, city, nreq, resp, outcome, delayed, hotels, all_hotels,
                   seen_place_ids, cityResults, backupFile, i, total_inserted, upserts>>

\* lines 202-215: create_client, then get_all_hotels starts its loop
CreateClient ==
    /\ pc = "start"
    /\ ~(ApiKeyMissing \/ DbMissing)
    /\ client' = TRUE
    /\ pc' = "crawl"
    /\ UNCHANGED <<env, city, nreq, resp, outcome, delayed, hotels, all_hotels,
                   seen_place_ids, cityResults, backupFile, i, total_inserted, upserts>>

(* ----------------------- search_hotels_in_city ------------------------ *)
\* lines 46-89 and, without a next_page_token, 115-122: the first request of
\* the call for CITIES[city] and the handling of its outcome r; token says
\* whether the response holds a next_page_token.
FetchPage1(r, token) ==
    /\ pc = "crawl"
    /\ city <= NumCities
    /\ nreq' = 1
    /\ resp' = r
    /\ IF r.error
       THEN /\ hotels' = OnException(<<>>)
            /\ outcome' = "raised"
            /\ delayed' = FALSE
            /\ pc' = "merge"
       ELSE IF ~StatusOk(r.status)
       THEN /\ hotels' = <<>>
            /\ outcome' = "status"
            /\ delayed' = FALSE
            /\ pc' = "merge"
       ELSE LET res == IF r.results # None
                       THEN ProcessPlaces(r.results[1], <<>>)
                       ELSE [hotels |-> <<>>, raised |-> FALSE]
            IN  IF res.raised
                THEN /\ hotels' = OnException(res.hotels)
                     /\ outcome' = "raised"
                     /\ delayed' = FALSE
                     /\ pc' = "merge"
                ELSE IF token
                THEN /\ hotels' = res.hotels
                     /\ outcome' = "paging"
                     /\ delayed' = FALSE
                     /\ pc' = "page2"
                ELSE /\ hotels' = res.hotels
                     /\ outcome' = "returned"
                     /\ delayed' = TRUE
                     /\ pc' = "merge"
    /\ UNCHANGED <<env, client, city, all_hotels, seen_place_ids, cityResults,
                   backupFile, i, total_inserted, upserts>>

\* lines 92-122: time.sleep(2), the second request and the handling of its
\* outcome r; no further page is requested.
FetchPage2(r) ==
    /\ pc = "page2"
    /\ nreq' = 2
    /\ resp' = r
    /\ pc' = "merge"
    /\ IF r.error
       THEN /\ hotels' = OnException(hotels)
            /\ outcome' = "raised"
            /\ delayed' = FALSE
       ELSE IF StatusOk(r.status) /\ r.results # None
       THEN LET res == ProcessPlaces(r.results[1], hotels)
            IN  IF res.raised
                THEN /\ hotels' = OnException(res.hotels)
                     /\ outcome' = "raised"
                     /\ delayed' = FALSE
                ELSE /\ hotels' = res.hotels
                     /\ outcome' = "returned"
                     /\ delayed' = TRUE
       ELSE /\ hotels' = hotels
            /\ outcome' = "returned"
            /\ delayed' = TRUE
    /\ UNCHANGED <<env, client, city, all_hotels, seen_place_ids, cityResults,
                   backupFile, i, total_inserted, upserts>>

(* --------------------------- get_all_hotels --------------------------- *)
\* lines 131-141: search_hotels_in_city has returned `hotels` (its frame, with
\* the response and the request count, is gone); merge the returned list,
\* then the next city or return
MergeCity ==
    /\ pc = "merge"
    /\ LET d == DedupCity(all_hotels, seen_place_ids, hotels)
       IN  /\ all_hotels' = d.all
           /\ seen_place_ids' = d.seen
    /\ city' = city + 1
    /\ pc' = IF city = NumCities THEN "collected" ELSE "crawl"
    /\ hotels' = <<>>
    /\ resp' = NoResponse
    /\ outcome' = "none"
    /\ nreq' = 0
    /\ UNCHANGED <<env, client, delayed, cityResults, backupFile, i, total_inserted,
                   upserts>>

(* ------------------------- main, after the crawl ---------------------- *)
\* lines 222-228
EmptyReturn ==
    /\ pc = "collected"
    /\ IsEmpty(all_hotels)
    /\ pc' = "empty"
    /\ UNCHANGED <<env, client, city, nreq, resp, outcome, delayed, hotels, all_hotels,
                   seen_place_ids, cityResults, backupFile, i, total_inserted, upserts>>

\* lines 230-238: open(json_path, "w") and json.dump. open can fail and leave
\* the file as it was; json.dump can fail after open truncated the file.
Backup(ok, truncated) ==
    /\ pc = "collected"
    /\ ~IsEmpty(all_hotels)
    /\ ok => truncated
    /\ backupFile' = IF ok THEN [state |-> "written", data |-> all_hotels]
                     ELSE IF truncated THEN [state |-> "partial", data |-> <<>>]
                     ELSE backupFile
    /\ pc' = AfterBackup(ok)
    /\ i' = 0
    /\ total_inserted' = 0
    /\ UNCHANGED <<env, client, city, nreq, resp, outcome, delayed, hotels, all_hotels,
                   seen_place_ids, cityResults, upserts>>

(* -------------------------- insert_to_supabase ------------------------ *)
\* lines 152-177: one iteration of the batch loop; ok says whether
\* upsert(...).execute() returned or raised
UpsertBatch(ok) ==
    /\ pc = "insert"
    /\ i < Len(all_hotels)
    /\ LET insert_data == ToRows(Batch(all_hotels, i))
       IN  /\ upserts' = Append(upserts, [rows |-> insert_data, ok |-> ok])
           /\ total_inserted' = Count(total_inserted, insert_data, ok)
    /\ i' = i + batch_size
    /\ UNCHANGED <<env, client, pc, city, nreq, resp, outcome, delayed, hotels,
                   all_hotels, seen_place_ids, cityResults, backupFile>>

\* line 179 and lines 240-243
InsertReturn ==
    /\ pc = "insert"
    /\ i >= Len(all_hotels)
    /\ pc' = "done"
    /\ UNCHANGED <<env, client, city, nreq, resp, outcome, delayed, hotels, all_hotels,
                   seen_place_ids, cityResults, backupFile, i, total_inserted, upserts>>

Next ==
    \/ MainAbort
    \/ CreateClient
    \/ \E r \in Fetches, token \in BOOLEAN : FetchPage1(r, token)
    \/ \E r \in Fetches : FetchPage2(r)
    \/ MergeCity
    \/ EmptyReturn
    \/ \E ok \in BOOLEAN, truncated \in BOOLEAN : Backup(ok, truncated)
    \/ \E ok \in BOOLEAN : UpsertBatch(ok)
    \/ InsertReturn

Spec == Init /\ [][Next]_vars

(* ------------- get_all_hotels over given per-city results ------------- *)
\* The records the per-city result lists are built from: two different
\* records of place p1, one of p2, one without place_id, one with an empty one.
DedupRecords ==
    { [name |-> 1, rating |-> 45, place_id |-> <<"p1">>],
      [name |-> 2, rating |-> 40, place_id |-> <<"p1">>],
      [name |-> 3, rating |-> 0,  place_id |-> <<"p2">>],
      [name |-> 4, rating |-> 45, place_id |-> None],
      [name |-> 5, rating |-> 45, place_id |-> <<"">>] }

\* Every way of cutting a sequence s into NumCities consecutive lists
Cuts(s) ==
    {c \in [0..NumCities -> 0..Len(s)] :
        /\ c[0] = 0
        /\ c[NumCities] = Len(s)
        /\ \A k \in 1..NumCities : c[k - 1] <= c[k]}

InitDedup ==
    /\ env = [api |-> TRUE, url |-> TRUE, key |-> TRUE]
    /\ client = TRUE
    /\ pc = "crawl"
    /\ city = 1
    /\ nreq = 0
    /\ resp = NoResponse
    /\ outcome = "none"
    /\ delayed = FALSE
    /\ hotels = <<>>
    /\ all_hotels = <<>>
    /\ seen_place_ids = {}
    /\ \E s \in SeqsUpTo(DedupRecords, MaxRecords) : \E c \in Cuts(s) :
          cityResults = [k \in 1..NumCities |-> SubSeq(s, c[k - 1] + 1, c[k])]
    /\ backupFile = OldFile
    /\ i = 0
    /\ total_inserted = 0
    /\ upserts = <<>>

\* line 131: search_hotels_in_city returns the list given for CITIES[city]
ReturnResults ==
    /\ pc = "crawl"
    /\ city <= NumCities
    /\ hotels' = cityResults[city]
    /\ outcome' = "returned"
    /\ pc' = "merge"
    /\ UNCHANGED <<env, client, city, nreq, resp, delayed, all_hotels, seen_place_ids,
                   cityResults, backupFile, i, total_inserted, upserts>>

NextDedup ==
    \/ ReturnResults
    \/ MergeCity

SpecDedup == InitDedup /\ [][NextDedup]_vars

(* ------------- insert_to_supabase over a given collection ------------- *)
\* The k-th record of a collection: the names tell the records apart, every
\* second record is unrated
NthHotel(k) ==
    [name |-> k, rating |-> IF k % 2 = 0 THEN 0 ELSE 45, place_id |-> <<"p1">>]

InitInsert ==
    /\ env = [api |-> TRUE, url |-> TRUE, key |-> TRUE]
    /\ client = TRUE
    /\ pc = "insert"
    /\ city = NumCities + 1
    /\ nreq = 0
    /\ resp = NoResponse
    /\ outcome = "none"
    /\ delayed = FALSE
    /\ hotels = <<>>
    /\ \E n \in 0..MaxHotels : all_hotels = [k \in 1..n |-> NthHotel(k)]
    /\ seen_place_ids = {}
    /\ cityResults = <<>>
    /\ backupFile = OldFile
    /\ i = 0
    /\ total_inserted = 0
    /\ upserts = <<>>

NextInsert ==
    \/ \E ok \in BOOLEAN : UpsertBatch(ok)
    \/ InsertReturn

SpecInsert == InitInsert /\ [][NextInsert]_vars

(* ============================== claims ================================ *)

(* ---- C1 (SpecDedup) -------------------------------------------------- *)
\* The concatenation of the result lists of the first k cities
RECURSIVE Surfaced(_)
Surfaced(k) == IF k = 0 THEN <<>> ELSE Surfaced(k - 1) \o cityResults[k]

C1_HasId(rec) == rec.place_id # <<>> /\ rec.place_id # <<"">>
\* positions of the first occurrence of each non-empty place_id in s
C1_FirstIdx(s) ==
    {j \in 1..Len(s) :
        C1_HasId(s[j]) /\ \A m \in 1..(j - 1) : s[m].place_id # s[j].place_id}
\* the a-th smallest element of a set of positions
C1_Nth(S, a) == CHOOSE j \in S : Cardinality({m \in S : m < j}) = a - 1

\* C1: after any number of merged cities, and so when get_all_hotels returns,
\* all_hotels is exactly the records at the first occurrence of each distinct
\* non-empty place_id of the concatenated per-city lists, in that order: no
\* two share a place_id, the earliest record of a place_id is the one kept,
\* and every record without place_id or with an empty one is dropped.
C1_FirstOccurrenceOrder ==
    LET s == Surfaced(city - 1)
        first == C1_FirstIdx(s)
    IN  /\ Len(all_hotels) = Cardinality(first)
        /\ \A a \in 1..Len(all_hotels) : all_hotels[a] = s[C1_Nth(first, a)]
        /\ \A a, b \in 1..Len(all_hotels) :
              a # b => all_hotels[a].place_id # all_hotels[b].place_id
        /\ \A a \in 1..Len(all_hotels) : C1_HasId(all_hotels[a])

\* get_all_hotels has returned; city 1 surfaced p1 (name 1), city 2 surfaced
\* p1 again as another record together with a record without place_id.
C1_Witness ==
    /\ pc = "collected"
    /\ cityResults[1] = <<[name |-> 1, rating |-> 45, place_id |-> <<"p1">>]>>
    /\ cityResults[2] = <<[name |-> 4, rating |-> 45, place_id |-> None],
                          [name |-> 2, rating |-> 40, place_id |-> <<"p1">>]>>
    /\ all_hotels = <<[name |-> 1, rating |-> 45, place_id |-> <<"p1">>]>>

(* ---- C2 (Spec) ------------------------------------------------------- *)
\* C2: an upsert is issued, and insert_to_supabase is entered, only after the
\* backup file holds the full deduplicated collection; a run whose backup
\* write failed has ended (no step follows) with no upsert issued.
C2_BackupBeforeUpsert ==
    /\ (upserts # <<>> \/ pc \in {"insert", "done"}) =>
           backupFile = [state |-> "written", data |-> all_hotels]
    /\ pc = "crashed" =>
           /\ upserts = <<>>
           /\ backupFile.state # "written"
           /\ ~ENABLED Next

\* the backup write failed after truncating the file: the run is over
C2_Witness ==
    /\ pc = "crashed"
    /\ backupFile.state = "partial"
    /\ Len(all_hotels) = 2
    /\ upserts = <<>>

(* ---- C3 (Spec) ------------------------------------------------------- *)
\* TRUE iff a places-API request has been issued in this run
RequestIssued == nreq > 0 \/ city > 1

\* C3: with the API key, the database URL or the service-role key missing,
\* main never leaves its start except to return: no request, no client, no
\* upsert, and the backup file untouched.
C3_MissingConfigAborts ==
    (~env.api \/ ~env.url \/ ~env.key) =>
        /\ pc \in {"start", "aborted"}
        /\ ~RequestIssued
        /\ ~client
        /\ upserts = <<>>
        /\ backupFile = OldFile

\* main has returned early with only the service-role key missing
C3_Witness ==
    /\ pc = "aborted"
    /\ env = [api |-> TRUE, url |-> TRUE, key |-> FALSE]
    /\ ~client

(* ---- C4 (SpecInsert) ------------------------------------------------- *)
\* C4: the k-th upsert call carries exactly the records 100(k-1)+1 ..
\* min(100k, n) of the collection, in order; the calls issued so far are the
\* first ones, and at return there are ceil(n/100) of them, whatever batches
\* failed.
C4_Batches ==
    LET n == Len(all_hotels) IN
    /\ \A k \in 1..Len(upserts) :
          LET rows == upserts[k].rows
              from == 100 * (k - 1)
          IN  /\ from < n
              /\ Len(rows) = (IF n - from < 100 THEN n - from ELSE 100)
              /\ \A j \in 1..Len(rows) :
                    /\ rows[j].name = all_hotels[from + j].name
                    /\ rows[j].place_id = all_hotels[from + j].place_id
    /\ pc = "done" => Len(upserts) = (n + 99) \div 100

\* 250 records were sent as 100, 100 and 50 although the first batch failed
C4_Witness ==
    /\ pc = "done"
    /\ Len(all_hotels) = 250
    /\ Len(upserts) = 3
    /\ ~upserts[1].ok
    /\ Len(upserts[1].rows) = 100
    /\ Len(upserts[2].rows) = 100
    /\ Len(upserts[3].rows) = 50
    /\ upserts[3].rows[50].name = 250

(* ---- C5 (SpecInsert) ------------------------------------------------- *)
RECURSIVE C5_SumOk(_)
C5_SumOk(calls) ==
    IF calls = <<>> THEN 0
    ELSE (IF Head(calls).ok THEN Len(Head(calls).rows) ELSE 0) + C5_SumOk(Tail(calls))

\* C5: a failing batch never ends the run, and total_inserted (the value
\* returned at "done") is the sum of the sizes of the batches whose upsert
\* succeeded; at return every record has been sent, failed batches or not.
C5_CountsSuccessfulBatches ==
    /\ pc \in {"insert", "done"}
    /\ total_inserted = C5_SumOk(upserts)
    /\ pc = "done" => 100 * Len(upserts) >= Len(all_hotels)

\* 250 records: batch 1 failed, batches 2 and 3 succeeded, 150 reported
C5_Witness ==
    /\ pc = "done"
    /\ Len(upserts) = 3
    /\ ~upserts[1].ok
    /\ upserts[2].ok
    /\ upserts[3].ok
    /\ total_inserted = 150

(* ---- C6, C7, C8: what one fetch step does with its response ---------- *)
\* A step of search_hotels_in_city that issued a request
FetchStep == pc \in {"crawl", "page2"} /\ pc' # pc
\* The records the call held before the step's request
HeldBefore == IF pc = "page2" THEN hotels ELSE <<>>

IsMalformed(place) == place.rating.kind = "malformed"
\* The record a place becomes: its rating, or 0 when it has none
C_Record(place) ==
    [name |-> place.name,
     rating |-> IF place.rating.kind = "number" THEN place.rating.value ELSE 0,
     place_id |-> place.place_id]
\* rated at least 4.0, or unrated (absent, or reported as 0)
C_Keep(place) ==
    \/ place.rating.kind = "absent"
    \/ place.rating.kind = "number" /\ (place.rating.value >= 40 \/ place.rating.value = 0)
C_KeptRecords(places) ==
    LET kept == SelectSeq(places, C_Keep)
    IN  [k \in 1..Len(kept) |-> C_Record(kept[k])]

\* A response whose results are read: status OK and a "results" entry
ResultsRead(r) == ~r.error /\ r.status = "OK" /\ r.results # None
\* The fetch raises: the request or json() raises, or a place read is malformed
Raises(r) ==
    \/ r.error
    \/ ResultsRead(r) /\ \E j \in 1..Len(r.results[1]) : IsMalformed(r.results[1][j])
\* The places read before the exception
PlacesBeforeFailure(r) ==
    IF r.error THEN <<>>
    ELSE LET bad == CHOOSE j \in 1..Len(r.results[1]) :
                        /\ IsMalformed(r.results[1][j])
                        /\ \A m \in 1..(j - 1) : ~IsMalformed(r.results[1][m])
         IN  SubSeq(r.results[1], 1, bad - 1)

(* ---- C6 (Spec) ------------------------------------------------------- *)
\* C6 as stated: a call that ended in a caught exception returns no records.
C6_RaisedGivesZeroRecords ==
    (pc = "merge" /\ outcome = "raised") => hotels = <<>>

\* C6 amended: whenever a request or the reading of a response raises, on
\* either page, the call still returns to get_all_hotels (nothing propagates),
\* with exactly the records appended before the exception: none when the first
\* request fails, the first page's records when the second request fails, and
\* the records of the places ahead of the malformed one otherwise; the merge
\* then moves on to the next city or returns.
C6_RaisedKeepsEarlierRecords ==
    [][ /\ (FetchStep /\ Raises(resp')) =>
              /\ pc' = "merge"
              /\ outcome' = "raised"
              /\ hotels' = HeldBefore \o C_KeptRecords(PlacesBeforeFailure(resp'))
        /\ (FetchStep /\ ~Raises(resp')) => outcome' # "raised"
        /\ pc = "merge" =>
              /\ city' = city + 1
              /\ pc' = (IF city = NumCities THEN "collected" ELSE "crawl")
      ]_vars

\* the second request of a city raised and the first page's record is returned
C6_Witness ==
    /\ pc = "merge"
    /\ outcome = "raised"
    /\ nreq = 2
    /\ resp.error
    /\ hotels = <<[name |-> 1, rating |-> 45, place_id |-> <<"p1">>]>>

(* ---- C7 (Spec) ------------------------------------------------------- *)
\* C7 as stated: a call that received a response with a status other than OK
\* returns an empty sequence.
C7_NonOkGivesEmpty ==
    (pc = "merge" /\ nreq >= 1 /\ ~resp.error /\ resp.status # "OK") => hotels = <<>>

\* C7 amended: a first-page response with a status other than OK makes the
\* call return an empty sequence after that one request; a second-page
\* response with a status other than OK makes it return the first page's
\* records unchanged; neither raises, no further request is issued for the
\* city, and the merge moves on to the next city or returns.
C7_NonOkKeepsFirstPage ==
    [][ /\ (FetchStep /\ ~resp'.error /\ resp'.status # "OK") =>
              /\ pc' = "merge"
              /\ outcome' # "raised"
              /\ hotels' = HeldBefore
              /\ nreq' = (IF pc = "crawl" THEN 1 ELSE 2)
        /\ pc = "merge" =>
              /\ city' = city + 1
              /\ pc' = (IF city = NumCities THEN "collected" ELSE "crawl")
      ]_vars

\* the first request got REQUEST_DENIED together with a 4.5-rated place:
\* nothing is returned after one request
C7_Witness ==
    /\ pc = "merge"
    /\ nreq = 1
    /\ ~resp.error
    /\ resp.status = "REQUEST_DENIED"
    /\ resp.results = <<<<[name |-> 1, rating |-> Num(45), place_id |-> <<"p1">>]>>>>
    /\ hotels = <<>>

(* ---- C8 (Spec) ------------------------------------------------------- *)
\* C8: on the first and on the second page alike, when the page's results
\* are read through, the records appended are exactly those of the places
\* rated at least 4.0 or unrated, in page order, unrated ones with rating 0.
C8_RatingFilter ==
    [][ (FetchStep /\ ResultsRead(resp') /\ ~Raises(resp')) =>
            hotels' = HeldBefore \o C_KeptRecords(resp'.results[1])
      ]_vars

\* second page read: the unrated place is kept, the 3.9 one dropped, after a
\* first page that kept the 4.5 and the 4.0 place
C8_Witness ==
    /\ pc = "merge"
    /\ nreq = 2
    /\ resp.status = "OK"
    /\ resp.results = <<<<[name |-> 3, rating |-> Num(39), place_id |-> <<"p2">>],
                          [name |-> 2, rating |-> Absent, place_id |-> <<"p2">>]>>>>
    /\ hotels = <<[name |-> 1, rating |-> 45, place_id |-> <<"p1">>],
                  [name |-> 4, rating |-> 40, place_id |-> None],
                  [name |-> 2, rating |-> 0, place_id |-> <<"p2">>]>>

(* ---- C9 (Spec) ------------------------------------------------------- *)
\* C9: whenever a city's call has returned, and so whenever the first request
\* of the next city is about to be issued, the inter-city delay has elapsed
\* since the last request.
C9_DelayBeforeNextCity ==
    (pc = "merge" \/ (pc = "crawl" /\ city > 1)) => delayed

(* ---- C10 (Spec) ------------------------------------------------------ *)
\* C10: the backup file is touched, an upsert issued, or the persisting part
\* of main entered, only with at least one record collected; a run that
\* collected none returns with the backup file as it was and no upsert.
C10_EmptyCrawlWritesNothing ==
    /\ (backupFile # OldFile \/ upserts # <<>> \/ pc \in {"insert", "done", "crashed"})
           => Len(all_hotels) >= 1
    /\ pc = "empty" =>
           /\ all_hotels = <<>>
           /\ backupFile = OldFile
           /\ upserts = <<>>
           /\ ~ENABLED Next

\* every city was searched, nothing was collected, main returned
C10_Witness ==
    /\ pc = "empty"
    /\ city = NumCities + 1
    /\ all_hotels = <<>>
    /\ backupFile = OldFile

====
